---- MODULE Spec2Model ----
(***************************************************************************)
(* A model of utils/chat_formatting.py: the page generator pagify (with   *)
(* the mass-mention part of escape) and the box renderer bordered.        *)
(*                                                                         *)
(* A Python str is a sequence of one-character strings.  The character    *)
(* U+200B (zero width space) is written ZWSP.                             *)
(***************************************************************************)
EXTENDS Integers, Sequences, FiniteSets, TLC

VARIABLES
    \* pagify: arguments
    text, delims, priority, escape_mass_mentions, shorten_by, page_length,
    \* pagify: locals of the generator frame
    in_text, this_page_len, closest_delim,
    \* pagify: the pages yielded so far, and the generator's position
    pages, pc,
    \* pagify: history of the non-empty slices cut off in_text, in order,
    \* each with whether it was yielded
    segs,
    \* bordered: arguments
    columns, ascii_border,
    \* bordered: locals
    widths, colsdone, lines, rowidx,
    \* bordered: the returned string, and the call's position
    result, bpc

pvars == <<text, delims, priority, escape_mass_mentions, shorten_by,
           page_length, in_text, this_page_len, closest_delim, pages, pc,
           segs>>
bvars == <<columns, ascii_border, widths, colsdone, lines, rowidx, result,
           bpc>>
vars == <<pvars, bvars>>

----------------------------------------------------------------------------
(* Bounds of the model *)

MaxFragments == 4
MaxCols == 2
MaxLines == 4

----------------------------------------------------------------------------
(* Characters and strings *)

NL == "\n"
ZWSP == "ZWSP"

S_here == <<"@", "h", "e", "r", "e">>
S_everyone == <<"@", "e", "v", "e", "r", "y", "o", "n", "e">>
S_here_escaped == <<"@", ZWSP, "h", "e", "r", "e">>
S_everyone_escaped == <<"@", ZWSP, "e", "v", "e", "r", "y", "o", "n", "e">>

Min(a, b) == IF a < b THEN a ELSE b
Max(a, b) == IF a > b THEN a ELSE b

\* A slice index as Python normalises it for a string of length n.
NormIndex(i, n) == IF i < 0 THEN Max(i + n, 0) ELSE Min(i, n)

\* s[a:b], 0-based, Python semantics.
Slice(s, a, b) ==
    LET lo == NormIndex(a, Len(s))
        hi == NormIndex(b, Len(s))
    IN  IF lo >= hi THEN <<>> ELSE SubSeq(s, lo + 1, hi)

\* s[:k] and s[k:]
Head_(s, k) == Slice(s, 0, k)
Tail_(s, k) == Slice(s, k, Len(s))

\* Whether sub occurs in s at 0-based index i.
MatchAt(s, sub, i) ==
    /\ i >= 0
    /\ i + Len(sub) <= Len(s)
    /\ SubSeq(s, i + 1, i + Len(sub)) = sub

\* str.rfind(sub, start, end): the highest index in s[start:end] where sub
\* is found, -1 when there is none.
RFind(s, sub, start, end) ==
    LET lo == NormIndex(start, Len(s))
        hi == NormIndex(end, Len(s))
        hits == {i \in lo..(hi - Len(sub)) : MatchAt(s, sub, i)}
    IN  IF hits = {} THEN -1 ELSE CHOOSE i \in hits : \A j \in hits : j <= i

RECURSIVE CountFrom(_, _, _, _)
CountFrom(s, sub, i, hi) ==
    IF i + Len(sub) > hi THEN 0
    ELSE IF MatchAt(s, sub, i) THEN 1 + CountFrom(s, sub, i + Len(sub), hi)
    ELSE CountFrom(s, sub, i + 1, hi)

\* str.count(sub, start, end): non-overlapping occurrences in s[start:end].
Count(s, sub, start, end) ==
    CountFrom(s, sub, NormIndex(start, Len(s)), NormIndex(end, Len(s)))

RECURSIVE ReplaceFrom(_, _, _, _)
ReplaceFrom(s, old, new, i) ==
    IF i > Len(s) - 1 THEN <<>>
    ELSE IF MatchAt(s, old, i)
         THEN new \o ReplaceFrom(s, old, new, i + Len(old))
         ELSE <<s[i + 1]>> \o ReplaceFrom(s, old, new, i + 1)

\* str.replace(old, new) for a non-empty old: left to right, non-overlapping.
Replace(s, old, new) == ReplaceFrom(s, old, new, 0)

\* Characters str.strip() removes (ZWSP is not among them: it is of
\* category Cf, and str.isspace() is False for it).
Whitespace == {" ", NL, "\t", "\r"}

RECURSIVE LStrip(_)
LStrip(s) ==
    IF s # <<>> /\ s[1] \in Whitespace THEN LStrip(Tail(s)) ELSE s

RECURSIVE RStrip(_)
RStrip(s) ==
    IF s # <<>> /\ s[Len(s)] \in Whitespace
    THEN RStrip(SubSeq(s, 1, Len(s) - 1)) ELSE s

\* str.strip()
Strip(s) == RStrip(LStrip(s))

RECURSIVE Concat(_)
Concat(ss) == IF ss = <<>> THEN <<>> ELSE Head(ss) \o Concat(Tail(ss))

----------------------------------------------------------------------------
(* escape(text, mass_mentions=True) *)

\* escape with the replacement of "@everyone" left out.
escape_HereOnly(t) == Replace(t, S_here, S_here_escaped)

escape(t) ==
    Replace(Replace(t, S_everyone, S_everyone_escaped), S_here, S_here_escaped)

----------------------------------------------------------------------------
(* pagify *)

\* Inputs of the model: a text is up to MaxFragments fragments in a row; the
\* budgets page_length - shorten_by are 0, 3, 7 and 10 (shorten_by is taken
\* out of page_length, and the model draws no shorten_by above page_length).
Fragments == {<<"a">>, <<" ">>, <<NL>>, S_here, S_everyone}
FragSeqs == UNION {[1..k -> Fragments] : k \in 0..MaxFragments}
Texts == {Concat(fs) : fs \in FragSeqs}
DelimSets == {<<>>, <<<<NL>>>>, <<<<NL, NL>>, <<NL>>>>, <<<<" ">>, <<NL>>>>}
PageLengths == {4, 11}
ShortenBys == {1, 4}

\* Line 264: page_length minus the mentions counted in the first page_length
\* characters.
ShrunkPageLen(s, pl) ==
    pl - (Count(s, S_here, 0, pl) + Count(s, S_everyone, 0, pl))

\* Line 267: the generator of rfind results, in the order of delims.
ClosestDelims(s, ds, limit) ==
    [k \in 1..Len(ds) |-> RFind(s, ds[k], 1, limit)]

\* The break of line 269 taken as line 271 takes it: the latest one.
FirstPositive_Latest(xs) ==
    LET found == {xs[k] : k \in 1..Len(xs)} \ {-1}
    IN  IF found = {} THEN -1
        ELSE CHOOSE x \in found : \A y \in found : y <= x

\* Line 269: next((x for x in _closest_delim if x > 0), -1)
FirstPositive(xs) ==
    LET ks == {k \in 1..Len(xs) : xs[k] > 0}
    IN  IF ks = {} THEN -1
        ELSE xs[CHOOSE k \in ks : \A j \in ks : k <= j]

\* Line 271: max(_closest_delim), of a non-empty sequence.
MaxOf(xs) ==
    CHOOSE x \in {xs[k] : k \in 1..Len(xs)} :
        \A k \in 1..Len(xs) : xs[k] <= x

\* Line 271 raises ValueError when delims is empty.
MaxRaises(ds, prio) == ~prio /\ Len(ds) = 0

\* Lines 267-272: the break point of one iteration.
BreakPoint(s, ds, prio, limit) ==
    LET found == IF prio THEN FirstPositive(ClosestDelims(s, ds, limit))
                 ELSE MaxOf(ClosestDelims(s, ds, limit))
    IN  IF found # -1 THEN found ELSE limit

\* Lines 273-276: the slice to send.
ToSend(s, esc) == IF esc THEN escape(s) ELSE s

\* The rest taken after the character at the break point.
Advance_PastBreak(s, k) == Tail_(s, k + 1)

\* Line 279: the text left after the break point.
Advance(s, k) == Tail_(s, k)

\* The test of lines 277 and 281 without the strip.
Sendable_NoStrip(s) == Len(s) > 0

\* Lines 277, 281: len(x.strip()) > 0
Sendable(s) == Len(Strip(s)) > 0

\* The history with the slice raw added, whose escaped form is to_send.
Cut(history, raw, to_send) ==
    IF raw = <<>> THEN history
    ELSE Append(history, [raw |-> raw, sent |-> Sendable(to_send)])

InitPagifyVars ==
    /\ text \in Texts
    /\ delims \in DelimSets
    /\ priority \in BOOLEAN
    /\ escape_mass_mentions \in BOOLEAN
    /\ shorten_by \in ShortenBys
    /\ page_length \in PageLengths
    /\ page_length >= shorten_by
    /\ in_text = <<>>
    /\ this_page_len = 0
    /\ closest_delim = -1
    /\ pages = <<>>
    /\ segs = <<>>
    /\ pc = "start"

IdlePagifyVars ==
    /\ text = <<>>
    /\ delims = <<>>
    /\ priority = FALSE
    /\ escape_mass_mentions = FALSE
    /\ shorten_by = 0
    /\ page_length = 0
    /\ in_text = <<>>
    /\ this_page_len = 0
    /\ closest_delim = -1
    /\ pages = <<>>
    /\ segs = <<>>
    /\ pc = "idle"

\* Lines 259-260
PagifyStart ==
    /\ pc = "start"
    /\ in_text' = text
    /\ page_length' = page_length - shorten_by
    /\ pc' = "loop"
    /\ UNCHANGED <<text, delims, priority, escape_mass_mentions, shorten_by,
                   this_page_len, closest_delim, pages, segs>>
    /\ UNCHANGED bvars

\* Lines 261-279: one iteration of the while loop, up to the next test of
\* its condition; or the ValueError of line 271.
PagifyLoop ==
    /\ pc = "loop"
    /\ Len(in_text) > page_length
    /\ LET limit == IF escape_mass_mentions
                    THEN ShrunkPageLen(in_text, page_length)
                    ELSE page_length
       IN  /\ this_page_len' = limit
           /\ IF MaxRaises(delims, priority)
              THEN /\ pc' = "raised"
                   /\ UNCHANGED <<in_text, closest_delim, pages, segs>>
              ELSE LET k == BreakPoint(in_text, delims, priority, limit)
                       raw == Head_(in_text, k)
                       to_send == ToSend(raw, escape_mass_mentions)
                   IN  /\ closest_delim' = k
                       /\ pages' = IF Sendable(to_send)
                                   THEN Append(pages, to_send) ELSE pages
                       /\ segs' = Cut(segs, raw, to_send)
                       /\ in_text' = Advance(in_text, k)
                       /\ pc' = "loop"
    /\ UNCHANGED <<text, delims, priority, escape_mass_mentions, shorten_by,
                   page_length>>
    /\ UNCHANGED bvars

\* Lines 281-285: the rest, after the loop.
PagifyFinish ==
    /\ pc = "loop"
    /\ ~(Len(in_text) > page_length)
    /\ pages' = IF Sendable(in_text)
                THEN Append(pages, ToSend(in_text, escape_mass_mentions))
                ELSE pages
    /\ segs' = Cut(segs, in_text, in_text)
    /\ pc' = "done"
    /\ UNCHANGED <<text, delims, priority, escape_mass_mentions, shorten_by,
                   page_length, in_text, this_page_len, closest_delim>>
    /\ UNCHANGED bvars

----------------------------------------------------------------------------
(* bordered *)

Padding == 9
SepWidth == 4

F_TL == <<"{", "T", "L", "}">>
F_TR == <<"{", "T", "R", "}">>
F_BL == <<"{", "B", "L", "}">>
F_BR == <<"{", "B", "R", "}">>
F_HZ == <<"{", "H", "Z", "}">>
F_VT == <<"{", "V", "T", "}">>

\* Lines 168-175: the glyph of each key; a box-drawing character is written
\* by its code point.
borders(ascii) ==
    [key \in {<<"T", "L">>, <<"T", "R">>, <<"B", "L">>, <<"B", "R">>,
              <<"H", "Z">>, <<"V", "T">>} |->
        CASE key = <<"T", "L">> -> IF ascii THEN "+" ELSE "U+250C"
          [] key = <<"T", "R">> -> IF ascii THEN "+" ELSE "U+2510"
          [] key = <<"B", "L">> -> IF ascii THEN "+" ELSE "U+2514"
          [] key = <<"B", "R">> -> IF ascii THEN "+" ELSE "U+2518"
          [] key = <<"H", "Z">> -> IF ascii THEN "-" ELSE "U+2500"
          [] key = <<"V", "T">> -> IF ascii THEN "|" ELSE "U+2502"]

RECURSIVE Repeat(_, _)
Repeat(s, n) == IF n <= 0 THEN <<>> ELSE s \o Repeat(s, n - 1)

RECURSIVE Join(_, _)
Join(glue, ss) ==
    IF ss = <<>> THEN <<>>
    ELSE IF Len(ss) = 1 THEN ss[1]
    ELSE ss[1] \o glue \o Join(glue, Tail(ss))

\* Line 177
sep == Repeat(<<" ">>, SepWidth)

\* str.format(**kw) on a string whose replacement fields hold letters,
\* spaces and line breaks only, as the scanner of the format string reads it,
\* one character at a time.  mode is "text", "open" (after a "{"), "field"
\* (inside a field name), "close" (after a "}" outside a field) or "raised":
\* "{{" and "}}" are the literal braces, "{name}" is kw[name]; a name that is
\* no key (KeyError, or IndexError for the empty name) and a "{" inside a
\* field name or a single "}" (ValueError) raise.  out is what the
\* character adds to the result.
FormatChar(mode, name, c, kw) ==
    CASE mode = "raised" -> [mode |-> "raised", name |-> name, out |-> <<>>]
      [] mode = "text" ->
            IF c = "{" THEN [mode |-> "open", name |-> <<>>, out |-> <<>>]
            ELSE IF c = "}" THEN [mode |-> "close", name |-> <<>>, out |-> <<>>]
            ELSE [mode |-> "text", name |-> <<>>, out |-> <<c>>]
      [] mode = "open" ->
            IF c = "{" THEN [mode |-> "text", name |-> <<>>, out |-> <<c>>]
            ELSE IF c = "}" THEN [mode |-> "raised", name |-> <<>>, out |-> <<>>]
            ELSE [mode |-> "field", name |-> <<c>>, out |-> <<>>]
      [] mode = "field" ->
            IF c = "{" THEN [mode |-> "raised", name |-> name, out |-> <<>>]
            ELSE IF c # "}"
                 THEN [mode |-> "field", name |-> Append(name, c), out |-> <<>>]
            ELSE IF name \in DOMAIN kw
                 THEN [mode |-> "text", name |-> <<>>, out |-> <<kw[name]>>]
                 ELSE [mode |-> "raised", name |-> name, out |-> <<>>]
      [] mode = "close" ->
            IF c = "}" THEN [mode |-> "text", name |-> <<>>, out |-> <<c>>]
            ELSE [mode |-> "raised", name |-> <<>>, out |-> <<>>]

\* The scanner run over s[lo..hi] (1-based, inclusive), entered in mode
\* with the field name read so far: the mode and name it ends in, and the
\* output of these characters.
RECURSIVE FormatScan(_, _, _, _, _, _)
FormatScan(s, kw, lo, hi, mode, name) ==
    IF lo > hi \/ mode = "raised"
    THEN [mode |-> mode, name |-> name, out |-> <<>>]
    ELSE IF lo = hi THEN FormatChar(mode, name, s[lo], kw)
    ELSE LET mid == (lo + hi) \div 2
             left == FormatScan(s, kw, lo, mid, mode, name)
             right == FormatScan(s, kw, mid + 1, hi, left.mode, left.name)
         IN  [mode |-> right.mode, name |-> right.name,
              out |-> left.out \o right.out]

\* An unclosed "{" or a single "}" at the end of the string raises ValueError.
Format(s, kw) ==
    LET end == FormatScan(s, kw, 1, Len(s), "text", <<>>)
    IN  [ok |-> end.mode = "text", out |-> end.out]

\* len of the longest row of a non-empty column (line 179).
MaxLen(column) ==
    CHOOSE n \in {Len(column[r]) : r \in 1..Len(column)} :
        \A r \in 1..Len(column) : Len(column[r]) <= n

\* Line 179 raises ValueError (max of an empty sequence) for an empty column.
WidthRaises(cols) == \E c \in 1..Len(cols) : Len(cols[c]) = 0

\* Lines 178-180
Widths(cols) == [c \in 1..Len(cols) |-> MaxLen(cols[c]) + Padding]

\* Lines 182, 193, 207: a border of a column.
TopBorder(width) == F_TL \o Repeat(F_HZ, width) \o F_TR
BottomBorder(width) == F_BL \o Repeat(F_HZ, width) \o F_BR

\* Lines 197, 209
Filler(width) == Repeat(<<" ">>, width + 2)

\* Lines 199-200
ContentCell(line, width) ==
    F_VT \o line \o Repeat(<<" ">>, width - Len(line)) \o F_VT

\* The number of tuples itertools.zip_longest(*columns) yields.
Height(cols) ==
    IF Len(cols) = 0 THEN 0
    ELSE CHOOSE h \in {Len(cols[c]) : c \in 1..Len(cols)} :
             \A c \in 1..Len(cols) : Len(cols[c]) <= h

\* Lines 186-200: the cell of column colidx in the tuple number r
\* (1-based), where the column is None when it has fewer than r rows.
RowCell(cols, ws, done, colidx, r) ==
    IF r > Len(cols[colidx])
    THEN IF ~done[colidx] THEN BottomBorder(ws[colidx])
         ELSE Filler(ws[colidx])
    ELSE ContentCell(cols[colidx][r], ws[colidx])

\* Line 194 left out: no column is ever marked done.
RowDone_Never(cols, done, r) == done

\* Line 194: the columns marked done by the tuple number r.
RowDone(cols, done, r) ==
    [c \in 1..Len(cols) |-> done[c] \/ r > Len(cols[c])]

\* Lines 204-209
FinalCell(ws, done, colidx) ==
    IF ~done[colidx] THEN BottomBorder(ws[colidx]) ELSE Filler(ws[colidx])

\* Inputs of the model
\* Inputs of the model: up to MaxCols columns of up to MaxLines lines in all,
\* each line drawn from LineSet.
RECURSIVE Sum(_, _)
Sum(f, n) == IF n = 0 THEN 0 ELSE f[n] + Sum(f, n - 1)

LineSet == {<<"a">>, <<"b", "b">>, F_HZ}
Shapes ==
    {hs \in UNION {[1..n -> 0..MaxLines] : n \in 1..MaxCols} :
        Sum(hs, Len(hs)) <= MaxLines}
Split(flat, hs) ==
    [c \in 1..Len(hs) |->
        SubSeq(flat, Sum(hs, c - 1) + 1, Sum(hs, c - 1) + hs[c])]
ColumnLists ==
    UNION {{Split(flat, hs) : flat \in [1..Sum(hs, Len(hs)) -> LineSet]} :
              hs \in Shapes}

InitBorderedVars ==
    /\ columns \in ColumnLists
    /\ ascii_border \in BOOLEAN
    /\ widths = <<>>
    /\ colsdone = <<>>
    /\ lines = <<>>
    /\ rowidx = 0
    /\ result = <<>>
    /\ bpc = "start"

IdleBorderedVars ==
    /\ columns = <<>>
    /\ ascii_border = FALSE
    /\ widths = <<>>
    /\ colsdone = <<>>
    /\ lines = <<>>
    /\ rowidx = 0
    /\ result = <<>>
    /\ bpc = "idle"

\* Lines 168-182: up to the first tuple of zip_longest, or the ValueError of
\* line 179.
BorderedStart ==
    /\ bpc = "start"
    /\ IF WidthRaises(columns)
       THEN /\ bpc' = "raised"
            /\ UNCHANGED <<widths, colsdone, lines>>
       ELSE LET ws == Widths(columns)
                top == [c \in 1..Len(columns) |-> TopBorder(ws[c])]
            IN  /\ widths' = ws
                /\ colsdone' = [c \in 1..Len(columns) |-> FALSE]
                /\ lines' = <<Join(sep, top)>>
                /\ bpc' = "rows"
    /\ UNCHANGED <<columns, ascii_border, rowidx, result>>
    /\ UNCHANGED pvars

\* Lines 184-202: one tuple of zip_longest.
BorderedRow ==
    /\ bpc = "rows"
    /\ rowidx < Height(columns)
    /\ LET r == rowidx + 1
           row == [c \in 1..Len(columns) |->
                      RowCell(columns, widths, colsdone, c, r)]
       IN  /\ colsdone' = RowDone(columns, colsdone, r)
           /\ lines' = Append(lines, Join(sep, row))
           /\ rowidx' = r
    /\ UNCHANGED <<columns, ascii_border, widths, result, bpc>>
    /\ UNCHANGED pvars

\* Lines 204-212: the trailing row, the join and the format, which returns
\* or raises.
BorderedFinal ==
    /\ bpc = "rows"
    /\ rowidx = Height(columns)
    /\ LET final_row == [c \in 1..Len(columns) |->
                            FinalCell(widths, colsdone, c)]
           all == Append(lines, Join(sep, final_row))
           formatted == Format(Join(<<NL>>, all), borders(ascii_border))
       IN  /\ lines' = all
           /\ result' = formatted.out
           /\ bpc' = IF formatted.ok THEN "done" ELSE "raised"
    /\ UNCHANGED <<columns, ascii_border, widths, colsdone, rowidx>>
    /\ UNCHANGED pvars

----------------------------------------------------------------------------
(* Specifications *)

InitPagify == InitPagifyVars /\ IdleBorderedVars
NextPagify == PagifyStart \/ PagifyLoop \/ PagifyFinish
SpecPagify == InitPagify /\ [][NextPagify]_vars

InitBordered == InitBorderedVars /\ IdlePagifyVars
NextBordered == BorderedStart \/ BorderedRow \/ BorderedFinal
SpecBordered == InitBordered /\ [][NextBordered]_vars

Init == InitPagify \/ InitBordered
Next == NextPagify \/ NextBordered
Spec == Init /\ [][Next]_vars

----------------------------------------------------------------------------
(* Definitions used to state the properties of pagify *)

Contains(s, sub) == \E i \in 0..(Len(s) - Len(sub)) : MatchAt(s, sub, i)

\* The slices cut so far: all of them, those yielded, those dropped.
Raws == [k \in 1..Len(segs) |-> segs[k].raw]
IsSent(seg) == seg.sent
IsDropped(seg) == ~seg.sent
SentRaws == LET ss == SelectSeq(segs, IsSent)
            IN  [k \in 1..Len(ss) |-> ss[k].raw]

\* The input not yet cut off (the final slice is in segs once pc = "done").
Remaining == IF pc = "done" THEN <<>> ELSE in_text

\* in_text as it was before the last cut.
BeforeLastCut == segs[Len(segs)].raw \o in_text

IsBlank(s) == \A i \in 1..Len(s) : s[i] \in Whitespace

NotZWSP(c) == c # ZWSP

\* The 0-based indices where a mass mention starts in s.
MentionStarts(s) ==
    {i \in 0..(Len(s) - 1) : MatchAt(s, S_here, i) \/ MatchAt(s, S_everyone, i)}

\* s with a zero-width separator after the "@" of every mass mention.
WithSeparators(s) ==
    Concat([i \in 1..Len(s) |->
               IF (i - 1) \in MentionStarts(s) THEN <<s[i], ZWSP>>
               ELSE <<s[i]>>])

\* The default arguments of pagify, but for the lengths.
DefaultSettings ==
    /\ delims = <<<<NL>>>>
    /\ ~priority
    /\ escape_mass_mentions

\* The 0-based indices, from 1 on, of the occurrences of d in s that end
\* before the index limit.
OccurrencesInRange(s, d, limit) ==
    {i \in 1..(limit - 1) : i + Len(d) <= limit /\ MatchAt(s, d, i)}

SetMax(S) == CHOOSE x \in S : \A y \in S : y <= x
SetMin(S) == CHOOSE x \in S : \A y \in S : x <= y

\* The ranking rule: the break point for the text s.
RankedBreak(s, ds, prio, limit) ==
    LET has == {k \in 1..Len(ds) : OccurrencesInRange(s, ds[k], limit) # {}}
        all == UNION {OccurrencesInRange(s, ds[k], limit) : k \in 1..Len(ds)}
    IN  IF has = {} THEN limit
        ELSE IF prio THEN SetMax(OccurrencesInRange(s, ds[SetMin(has)], limit))
        ELSE SetMax(all)

----------------------------------------------------------------------------
(* Properties of pagify, checked under SpecPagify *)

\* C1: every page yielded, by the loop or after it, measured after the
\* escaping of mass mentions, is at most page_length - shorten_by long
\* (page_length holds that difference once the generator has started).
C1_PagesWithinBudget ==
    pc \in {"loop", "done", "raised"} =>
        \A k \in 1..Len(pages) : Len(pages[k]) <= page_length

\* C2: every iteration of the loop leaves strictly less input than it
\* found, whatever page_length and shorten_by are.
C2_CursorShrinks ==
    [][(pc = "loop" /\ pc' = "loop") => Len(in_text') < Len(in_text)]_vars

\* C3: pagify raises for no text, no sequence of delimiters (the empty one
\* included), no priority and no escaping flag.
C3_NeverRaises == pc # "raised"

\* C4: under the default settings the slices cut off the input are, in
\* order and without gap or overlap, the input consumed so far; the pages
\* are, in order, the slices that are not whitespace-only, each equal to its
\* slice once the zero-width separators are removed; and a break at a
\* delimiter leaves the delimiter at the head of the rest.
C4_PagesReproduceText ==
    (DefaultSettings /\ pc \in {"loop", "done"}) =>
        /\ Concat(Raws) \o Remaining = text
        /\ \A k \in 1..Len(segs) : IsDropped(segs[k]) => IsBlank(segs[k].raw)
        /\ Len(pages) = Len(SentRaws)
        /\ \A k \in 1..Len(pages) : SelectSeq(pages[k], NotZWSP) = SentRaws[k]
        /\ SelectSeq(Concat(pages), NotZWSP) = Concat(SentRaws)
        /\ (pc = "loop" /\ 1 <= closest_delim /\ closest_delim < this_page_len)
               => (in_text # <<>> /\ in_text[1] = NL)

\* C4's case: a finished run under the default settings that broke at a
\* delimiter, dropped a whitespace-only slice and escaped a mention.
C4_Witness ==
    /\ DefaultSettings
    /\ pc = "done"
    /\ 1 <= closest_delim /\ closest_delim < this_page_len
    /\ \E k \in 1..Len(segs) : IsDropped(segs[k])
    /\ \E k \in 1..Len(pages) : Contains(pages[k], <<ZWSP>>)

C6_NoBlankPages ==
    /\ \A k \in 1..Len(pages) : Strip(pages[k]) # <<>>
    /\ IsBlank(text) => pages = <<>>
    /\ \A k \in 1..Len(segs) : IsDropped(segs[k]) <=> IsBlank(segs[k].raw)
    /\ Len(pages) = Cardinality({k \in 1..Len(segs) : IsSent(segs[k])})
    /\ pc \in {"loop", "done"} =>
           Len(text) = Len(Concat(Raws)) + Len(Remaining)

\* C6's case: a whitespace-only text longer than the budget, finished,
\* whose slices were all dropped.
C6_Witness ==
    /\ pc = "done"
    /\ Len(text) > page_length
    /\ IsBlank(text)
    /\ Len(segs) >= 2
    /\ pages = <<>>

\* C10: with escaping on, no page contains "@everyone" or "@here", and every
\* page is its slice with a zero-width separator after the "@" of each mass
\* mention that lies in the slice.
C10_NoMassMentions ==
    escape_mass_mentions =>
        /\ \A k \in 1..Len(pages) :
               /\ ~Contains(pages[k], S_here)
               /\ ~Contains(pages[k], S_everyone)
        /\ Len(pages) = Len(SentRaws)
        /\ \A k \in 1..Len(pages) : pages[k] = WithSeparators(SentRaws[k])

\* C10's case: a page of the loop and the final page each hold an escaped
\* mention.
C10_Witness ==
    /\ escape_mass_mentions
    /\ pc = "done"
    /\ Len(pages) >= 2
    /\ Contains(pages[1], S_here_escaped)
    /\ Contains(pages[Len(pages)], S_everyone_escaped)

----------------------------------------------------------------------------
(* Definitions used to state the properties of bordered *)

\* The length of the longest line of column number c, and its box's width.
LongestLine(c) == SetMax({Len(columns[c][r]) : r \in 1..Len(columns[c])})
BoxWidth(c) == LongestLine(c) + 9

\* The height of the tallest column.
Tallest == SetMax({Len(columns[c]) : c \in 1..Len(columns)})

AllColumnsHaveLines == \A c \in 1..Len(columns) : Len(columns[c]) >= 1
HasEmptyColumn == \E c \in 1..Len(columns) : Len(columns[c]) = 0

\* The width every row is to have.
BlockWidth ==
    Sum([c \in 1..Len(columns) |-> BoxWidth(c) + 2], Len(columns))
        + 4 * (Len(columns) - 1)

\* The lengths of the rows of the string s, its parts between line breaks.
RowLengths(s) ==
    LET cuts == {0, Len(s) + 1} \cup {i \in 1..Len(s) : s[i] = NL}
    IN  {SetMin({j \in cuts : j > i}) - i - 1 : i \in cuts \ {Len(s) + 1}}

RowCount(s) == Cardinality({i \in 1..Len(s) : s[i] = NL}) + 1

\* What column number c is to show in row number r of the block: the top
\* border, its lines, its bottom border right after them, then blanks.
ExpectedCell(c, r) ==
    LET w == BoxWidth(c)
        h == Len(columns[c])
    IN  IF r = 1 THEN F_TL \o Repeat(F_HZ, w) \o F_TR
        ELSE IF r <= h + 1
             THEN F_VT \o columns[c][r - 1]
                       \o Repeat(<<" ">>, w - Len(columns[c][r - 1])) \o F_VT
        ELSE IF r = h + 2 THEN F_BL \o Repeat(F_HZ, w) \o F_BR
        ELSE Repeat(<<" ">>, w + 2)

\* Row number r of the block before the glyphs are filled in.
ExpectedRow(r) == Join(sep, [c \in 1..Len(columns) |-> ExpectedCell(c, r)])

----------------------------------------------------------------------------
(* Properties of bordered, checked under SpecBordered *)

\* C7: every row of the returned block is as long as the sum of the
\* columns' (longest line + 9 + 2) plus 4 for each gap between columns.
C7_RowsEqualWidth ==
    bpc = "done" => RowLengths(result) = {BlockWidth}

\* C8: a column of height 0 raises nothing, and a single column of height 0
\* returns a block of exactly two rows.
C8_EmptyColumnAccepted ==
    HasEmptyColumn =>
        /\ bpc # "raised"
        /\ (bpc = "done" /\ Len(columns) = 1) => RowCount(result) = 2

\* C9: for columns of heights >= 1 every row built shows, for each column,
\* the top border, then its lines, then its bottom border in the row right
\* after its last line (so once, inline for a shorter column and in the
\* trailing row for a tallest one), then blanks of width + 2; and the block
\* has max height + 2 rows.
C9_BottomBorderOnce ==
    (AllColumnsHaveLines /\ bpc \in {"rows", "done"}) =>
        /\ \A r \in 1..Len(lines) : lines[r] = ExpectedRow(r)
        /\ bpc = "rows" => Len(lines) = rowidx + 1
        /\ bpc = "done" =>
               /\ Len(lines) = Tallest + 2
               /\ RowCount(result) = Tallest + 2

\* C9's case: a column of height 1 beside one of height 3: the first closes
\* inline and is blank in a later content row and in the trailing row, the
\* second closes in the trailing row.
C9_Witness ==
    /\ bpc = "done"
    /\ Len(columns) = 2
    /\ Len(columns[1]) = 1
    /\ Len(columns[2]) = 3
    /\ colsdone = <<TRUE, FALSE>>
    /\ Len(lines) = 5

====
